---- MODULE Spec2Model ----
(***************************************************************************)
(* photo-search embedder: the line-oriented text-embedding server          *)
(* (embed_text_server.py) and the zero-shot tagging pipeline (caption.py). *)
(*                                                                         *)
(* Strings are sequences of one-character strings, so that strip(),        *)
(* lower(), join() and the [a-zA-Z0-9]+ tokenizer are computed character   *)
(* by character.  Scores are integers in units of 0.001.                   *)
(***************************************************************************)
EXTENDS Integers, Sequences, FiniteSets, TLC

VARIABLES
    \* embed_text_server.py
    stdin,      \* lines written to the server's standard input so far
    closed,     \* the writer has closed standard input
    nread,      \* number of lines the for-loop has taken from stdin
    pc,         \* "awaiting" | "encoding" | "exited"
    cur,        \* the request whose embed_text call is pending
    out,        \* lines written (and flushed) to standard output
    calls,      \* embed_text invocations so far: <<line index, query>>
    exitCode,   \* the process exit status, NoExit while running
    \* caption.py main()
    n,          \* vocabulary size
    probs,      \* probs[i], the softmax score of label i, in 0.001
    bpc,        \* "start" | "done"
    sorted_idx, \* result of torch.argsort(probs, descending=True)
    selected,   \* <<tag, score>> pairs, in selection order
    caption,    \* build_caption(tags)
    tokens,     \* extract_tokens(caption)
    merged,     \* the merged list before truncation
    printed,    \* the "tags" field of the printed JSON object
    \* the merge loop of caption.py on arbitrary inputs
    mT, mE,     \* tag list and extra-token list
    mpc,        \* "start" | "merged" | "remerged"
    mOut,       \* merge(mT, mE)
    mOut2       \* merge(mOut, [])

serverVars == <<stdin, closed, nread, pc, cur, out, calls, exitCode>>
batchVars  == <<n, probs, bpc, sorted_idx, selected, caption, tokens, merged, printed>>
mergeVars  == <<mT, mE, mpc, mOut, mOut2>>
vars == <<serverVars, batchVars, mergeVars>>

Min(a, b) == IF a < b THEN a ELSE b

Range(s) == {s[i] : i \in DOMAIN s}

(***************************************************************************)
(* Python string primitives                                                *)
(***************************************************************************)
UpperChars == <<"A", "B", "C", "D", "E", "F", "G", "H", "I", "J", "K", "L", "M", "N", "O", "P", "Q", "R", "S", "T", "U", "V", "W", "X", "Y", "Z">>

LowerChars == <<"a", "b", "c", "d", "e", "f", "g", "h", "i", "j", "k", "l", "m", "n", "o", "p", "q", "r", "s", "t", "u", "v", "w", "x", "y", "z">>

DigitChars == <<"0", "1", "2", "3", "4", "5", "6", "7", "8", "9">>

\* str.isspace() characters the model uses
Whitespace == {" ", "\t", "\n", "\r"}

\* the character class [a-zA-Z0-9]
Alnum == Range(UpperChars) \cup Range(LowerChars) \cup Range(DigitChars)

Uppercase == Range(UpperChars)

\* the lower-case letter of each upper-case letter
ToLower == [c \in Uppercase |-> LowerChars[CHOOSE i \in DOMAIN UpperChars : UpperChars[i] = c]]

LowerChar(c) == IF c \in Uppercase THEN ToLower[c] ELSE c

\* str.lower()
Lower(s) == SubSeq([i \in DOMAIN s |-> LowerChar(s[i])], 1, Len(s))

RECURSIVE LStrip(_)
LStrip(s) == IF s # <<>> /\ Head(s) \in Whitespace THEN LStrip(Tail(s)) ELSE s

RECURSIVE RStrip(_)
RStrip(s) ==
    IF s # <<>> /\ s[Len(s)] \in Whitespace THEN RStrip(SubSeq(s, 1, Len(s) - 1)) ELSE s

\* str.strip()
Strip(s) == RStrip(LStrip(s))

\* sep.join(parts)
RECURSIVE Join(_, _)
Join(sep, parts) ==
    IF parts = <<>> THEN <<>>
    ELSE IF Len(parts) = 1 THEN parts[1]
    ELSE parts[1] \o sep \o Join(sep, Tail(parts))

\* seq[a:b], Python slice with 0-based bounds a <= b
Slice(s, a, b) == SubSeq(s, a + 1, Min(b, Len(s)))

(***************************************************************************)
(* embed_text_server.py                                                    *)
(***************************************************************************)
\* number of lines the writer may send before closing standard input
MaxLines == 3

\* JSON values, as json.loads returns them
None == [t |-> "null"]

JNum(k) == [t |-> "num", n |-> k]

JStr(s) == [t |-> "str", s |-> s]

JArr == [t |-> "arr"]

\* marks a key the object does not have
Absent == [t |-> "absent"]

JObj(id, q) == [t |-> "obj", id |-> id, q |-> q]

\* the bodies of input lines: nothing, text that is not JSON, or a JSON document
NoBody == [k |-> "none"]

Garbage == [k |-> "text"]

Json(v) == [k |-> "json", val |-> v]

Bodies ==
    { Garbage, Json(JArr),
      Json(JObj(JNum(1), JStr(<<" ", "c", "a", "t", " ">>))),
      Json(JObj(Absent, JStr(<<"d", "o", "g">>))),
      Json(JObj(JNum(1), Absent)),
      Json(JObj(JNum(2), JStr(<<" ", " ">>))),
      Json(JObj(JNum(2), None)) }

\* a line as the for-loop yields it: leading blanks, body, trailing blanks and newline
Lines ==
    { [lead |-> <<>>, body |-> b, trail |-> <<"\n">>] : b \in Bodies }
        \cup { [lead |-> <<" ">>, body |-> NoBody, trail |-> <<"\n">>] }

\* variant: the line is used as read, without strip()
StripLine_Unstripped(line) == line

\* line.strip()
StripLine(line) ==
    IF line.body = NoBody
    THEN [lead |-> <<>>, body |-> NoBody, trail |-> Strip(line.lead \o line.trail)]
    ELSE [lead |-> LStrip(line.lead), body |-> line.body, trail |-> RStrip(line.trail)]

\* not line
IsEmpty(line) == line.body = NoBody /\ line.lead = <<>> /\ line.trail = <<>>

\* json.loads(line): the document, or JSONDecodeError
JsonLoads(line) ==
    IF line.body.k = "json"
    THEN [ok |-> TRUE, val |-> line.body.val]
    ELSE [ok |-> FALSE, exc |-> "JSONDecodeError"]

\* msg.get(key, default) on a dict
DictGet(msg, key, default) == IF msg[key] = Absent THEN default ELSE msg[key]

\* str(v)
PyStr(v) ==
    CASE v.t = "str"  -> v.s
      [] v.t = "null" -> <<"N", "o", "n", "e">>
      [] v.t = "num"  -> <<DigitChars[v.n + 1]>>
      [] OTHER        -> <<"[", "]">>

\* variant: the query is not stripped
QueryOf_Unstripped(msg) == PyStr(DictGet(msg, "q", JStr(<<>>)))

\* str(msg.get("q", "")).strip()
QueryOf(msg) == Strip(PyStr(DictGet(msg, "q", JStr(<<>>))))

\* the try block up to the embed_text call: what the iteration does next
TryBlock(line) ==
    LET r == JsonLoads(line) IN
    IF ~r.ok THEN [act |-> "raise", exc |-> r.exc]
    ELSE IF r.val.t # "obj" THEN [act |-> "raise", exc |-> "AttributeError"]
    ELSE LET req_id == DictGet(r.val, "id", None)
             query == QueryOf(r.val)
         IN IF query = <<>>
            THEN [act |-> "write",
                  msg |-> [id |-> req_id, key |-> "error", val |-> [msg |-> "empty query"]]]
            ELSE [act |-> "embed", req_id |-> req_id, query |-> query]

\* variant: except json.JSONDecodeError
Catches_DecodeErrorOnly(exc) == exc = "JSONDecodeError"

\* except Exception: every failure of the try block is caught
Catches(exc) == TRUE

\* {"id": None, "error": str(exc)}
ExceptMessage(exc) == [id |-> None, key |-> "error", val |-> [msg |-> exc]]

\* {"id": req_id, "vector": vector}; the vector is a function of the query
VectorMessage(req_id, query) == [id |-> req_id, key |-> "vector", val |-> [of |-> query]]

\* write_message(obj): one line appended to stdout; src records the input line answered
write_message(o, src, obj) == Append(o, [src |-> src, id |-> obj.id, key |-> obj.key, val |-> obj.val])

ServerInit ==
    /\ stdin = <<>>
    /\ closed = FALSE
    /\ nread = 0
    /\ pc = "awaiting"
    /\ cur = [src |-> 0, req_id |-> None, query |-> <<>>]
    /\ out = <<>>
    /\ calls = <<>>
    /\ exitCode = {}

\* the peer writes one more line
Send(line) ==
    /\ ~closed
    /\ Len(stdin) < MaxLines
    /\ stdin' = Append(stdin, line)
    /\ UNCHANGED <<closed, nread, pc, cur, out, calls, exitCode>>

\* the peer closes the stream
Close ==
    /\ ~closed
    /\ closed' = TRUE
    /\ UNCHANGED <<stdin, nread, pc, cur, out, calls, exitCode>>

\* variant: no except clause, the exception ends the process
Raised_Uncaught(src, exc) ==
    /\ pc' = "exited"
    /\ exitCode' = {1}
    /\ UNCHANGED out

\* an exception reached the except clause, or escaped it
Raised(src, exc) ==
    IF Catches(exc)
    THEN /\ out' = write_message(out, src, ExceptMessage(exc))
         /\ pc' = "awaiting"
         /\ UNCHANGED exitCode
    ELSE /\ pc' = "exited"
         /\ exitCode' = {1}
         /\ UNCHANGED out

\* one iteration of the for-loop, up to the response or the embed_text call
ReadLine ==
    /\ pc = "awaiting"
    /\ nread < Len(stdin)
    /\ nread' = nread + 1
    /\ \E line \in {StripLine(stdin[nread + 1])} :
        IF IsEmpty(line)
        THEN UNCHANGED <<pc, cur, out, calls, exitCode>>
        ELSE \E t \in {TryBlock(line)} :
            CASE t.act = "raise" ->
                    /\ Raised(nread + 1, t.exc)
                    /\ UNCHANGED <<cur, calls>>
              [] t.act = "write" ->
                    /\ out' = write_message(out, nread + 1, t.msg)
                    /\ UNCHANGED <<pc, cur, calls, exitCode>>
              [] t.act = "embed" ->
                    /\ pc' = "encoding"
                    /\ cur' = [src |-> nread + 1, req_id |-> t.req_id, query |-> t.query]
                    /\ calls' = Append(calls, <<nread + 1, t.query>>)
                    /\ UNCHANGED <<out, exitCode>>
    /\ UNCHANGED <<stdin, closed>>

\* embed_text returns the vector
EmbedReturns ==
    /\ pc = "encoding"
    /\ out' = write_message(out, cur.src, VectorMessage(cur.req_id, cur.query))
    /\ pc' = "awaiting"
    /\ UNCHANGED <<stdin, closed, nread, cur, calls, exitCode>>

\* embed_text raises
EmbedRaises ==
    /\ pc = "encoding"
    /\ Raised(cur.src, "EncodingFailure")
    /\ UNCHANGED <<stdin, closed, nread, cur, calls>>

\* the for-loop is exhausted: return 0, raise SystemExit(0)
Eof ==
    /\ pc = "awaiting"
    /\ closed
    /\ nread = Len(stdin)
    /\ pc' = "exited"
    /\ exitCode' = {0}
    /\ UNCHANGED <<stdin, closed, nread, cur, out, calls>>

ServerStep == ReadLine \/ EmbedReturns \/ EmbedRaises \/ Eof

(***************************************************************************)
(* caption.py                                                              *)
(***************************************************************************)
TOP_K == 12

\* 0.03, in units of 0.001
MIN_SCORE == 30

\* the 5 of "len(selected) >= 5"
MinForced == 5

\* the 5 of "tags[1:5]"
ExtrasEnd == 5

\* the 24 of "merged[:24]"
MergedLimit == 24

\* An excerpt of the 110-entry vocabulary, in source order; it holds every
\* entry that is not a single word.
CANDIDATE_TAGS ==
    << <<"p", "e", "r", "s", "o", "n">>, <<"m", "a", "n">>, <<"s", "e", "l", "f", "i", "e">>, <<"c", "i", "t", "y">>, <<"c", "a", "r">>, <<"s", "e", "a">>, <<"s", "u", "n">>, <<"d", "a", "y">>,
       <<"g", "o", "l", "d", "e", "n", " ", "h", "o", "u", "r">>, <<"l", "i", "v", "i", "n", "g", " ", "r", "o", "o", "m">>, <<"b", "l", "a", "c", "k", " ", "a", "n", "d", " ", "w", "h", "i", "t", "e">>, <<"c", "l", "o", "s", "e", "-", "u", "p">>, <<"w", "i", "d", "e", " ", "s", "h", "o", "t">>,
       <<"c", "r", "o", "w", "d">>, <<"m", "a", "r", "k", "e", "t">> >>

STOPWORDS ==
    { <<"a">>, <<"a", "n">>, <<"t", "h", "e">>, <<"o", "f">>, <<"a", "n", "d">>, <<"i", "n">>, <<"a", "t">>, <<"o", "n">>, <<"f", "o", "r">>, <<"w", "i", "t", "h">>,
      <<"t", "o">>, <<"f", "r", "o", "m">>, <<"b", "y">>, <<"s", "c", "e", "n", "e">>, <<"p", "h", "o", "t", "o">> }

\* largest vocabulary size of the ramp score vectors
MaxVocab == 13

\* largest vocabulary size for which every score vector is enumerated
MaxSmallVocab == 6

\* longest run of equal scores in a ramp score vector
MaxTie == 2

\* largest rotation of a ramp over the vocabulary
MaxRot == 2

\* variant: extras = tags[1:]
build_caption_AllExtras(tagList) ==
    IF tagList = <<>> THEN <<"p", "h", "o", "t", "o">>
    ELSE IF Len(tagList) = 1 THEN <<"p", "h", "o", "t", "o", " ", "o", "f", " ">> \o tagList[1]
    ELSE <<"p", "h", "o", "t", "o", " ", "o", "f", " ">> \o tagList[1] \o <<" ", "w", "i", "t", "h", " ">> \o Join(<<",", " ">>, Tail(tagList))

build_caption(tagList) ==
    IF tagList = <<>> THEN <<"p", "h", "o", "t", "o">>
    ELSE LET lead == tagList[1]
             extras == Slice(tagList, 1, ExtrasEnd)
         IN IF extras = <<>>
            THEN <<"p", "h", "o", "t", "o", " ", "o", "f", " ">> \o lead
            ELSE <<"p", "h", "o", "t", "o", " ", "o", "f", " ">> \o lead \o <<" ", "w", "i", "t", "h", " ">> \o Join(<<",", " ">>, extras)

\* re.findall(r"[a-zA-Z0-9]+", s): the maximal runs of alphanumerics, scanning from i
RECURSIVE FindAll(_, _, _, _)
FindAll(s, i, word, acc) ==
    LET flushed == IF word = <<>> THEN acc ELSE Append(acc, word) IN
    IF i > Len(s) THEN flushed
    ELSE IF s[i] \in Alnum THEN FindAll(s, i + 1, Append(word, s[i]), acc)
    ELSE FindAll(s, i + 1, <<>>, flushed)

\* the filter of extract_tokens
Skipped(w) == Len(w) <= 2 \/ w \in STOPWORDS

\* the loop of extract_tokens over words[i..]
RECURSIVE TokenLoop(_, _, _)
TokenLoop(words, i, acc) ==
    IF i > Len(words) THEN acc
    ELSE LET w == words[i] IN
         IF Skipped(w) \/ w \in Range(acc)
         THEN TokenLoop(words, i + 1, acc)
         ELSE TokenLoop(words, i + 1, Append(acc, w))

extract_tokens(c) == TokenLoop(FindAll(Lower(c), 1, <<>>, <<>>), 1, <<>>)

\* variant: t = tag.strip()
Normalise_CaseKept(tag) == Strip(tag)

\* t = tag.strip().lower()
Normalise(tag) == Lower(Strip(tag))

\* the merge loop over list[i..]
RECURSIVE MergeLoop(_, _, _)
MergeLoop(list, i, acc) ==
    IF i > Len(list) THEN acc
    ELSE LET t == Normalise(list[i]) IN
         IF t = <<>> \/ t \in Range(acc)
         THEN MergeLoop(list, i + 1, acc)
         ELSE MergeLoop(list, i + 1, Append(acc, t))

\* merged, after the loop over tags + extract_tokens(caption)
MergeAll(T, E) == MergeLoop(T \o E, 1, <<>>)

\* variant: merged[:TOP_K]
Truncate_TopK(m) == Slice(m, 0, TOP_K)

\* merged[:24]
Truncate(m) == Slice(m, 0, MergedLimit)

Merge(T, E) == Truncate(MergeAll(T, E))

\* torch.argsort(p, descending=True) does not ask for a stable sort: the order of
\* equal scores is not specified.  Every permutation of rem in non-increasing score
\* order is a possible result.
RECURSIVE DescendingOrders(_, _)
DescendingOrders(p, rem) ==
    IF rem = {} THEN {<<>>}
    ELSE LET top == {i \in rem : \A j \in rem : p[j] <= p[i]} IN
         UNION {{<<i>> \o rest : rest \in DescendingOrders(p, rem \ {i})} : i \in top}

Argsort(p) == DescendingOrders(p, DOMAIN p)

\* variant: no "and len(selected) >= 5"
Stops_NoFloor(sel, score) ==
    \/ Len(sel) >= TOP_K
    \/ score < MIN_SCORE

\* the loop condition that ends the selection before candidate idx is appended
Stops(sel, score) ==
    \/ Len(sel) >= TOP_K
    \/ score < MIN_SCORE /\ Len(sel) >= MinForced

\* the selection loop over order[i..]
RECURSIVE SelectLoop(_, _, _, _)
SelectLoop(p, order, i, sel) ==
    IF i > Len(order) THEN sel
    ELSE LET idx == order[i]
             score == p[idx]
         IN IF Stops(sel, score) THEN sel
            ELSE SelectLoop(p, order, i + 1, Append(sel, <<CANDIDATE_TAGS[idx], score>>))

\* tags = [tag for tag, _ in selected]
TagsOf(sel) == [i \in DOMAIN sel |-> sel[i][1]]

\* Score vectors.  Small vocabularies get every vector over the two scores at
\* MIN_SCORE.  Larger ones get a ramp of distinct scores, a of them at or above
\* MIN_SCORE, with one run of g equal scores from rank t (t = 0: none), laid
\* over the vocabulary rotated by k and possibly reversed.
SmallScores == {MIN_SCORE - 1, MIN_SCORE}

RampScore(r, a, t, g) ==
    MIN_SCORE + a - (IF t > 0 /\ r >= t /\ r < t + g THEN t ELSE r)

RankOf(i, m, k, rev) ==
    LET j == ((i - 1 + k) % m) + 1 IN IF rev THEN m + 1 - j ELSE j

RampVectors(m) ==
    { [i \in 1..m |-> RampScore(RankOf(i, m, k, rev), a, t, g)] :
        <<a, t, g, k, rev>> \in
            { x \in (0..m) \X (0..m) \X (2..MaxTie) \X (0..Min(m - 1, MaxRot)) \X BOOLEAN :
                /\ x[2] + x[3] - 1 <= m
                /\ x[2] = 0 => x[3] = 2 } }

ScoreVectors(m) ==
    IF m = 0 THEN {<<>>}
    ELSE IF m <= MaxSmallVocab THEN [1..m -> SmallScores] \cup RampVectors(m)
    ELSE RampVectors(m)

BatchInit ==
    /\ n \in 0..Min(MaxVocab, Len(CANDIDATE_TAGS))
    /\ probs \in ScoreVectors(n)
    /\ bpc = "start"
    /\ sorted_idx = <<>>
    /\ selected = <<>>
    /\ caption = <<>>
    /\ tokens = <<>>
    /\ merged = <<>>
    /\ printed = <<>>

\* main(), from the scores to the printed record
Main ==
    /\ bpc = "start"
    /\ sorted_idx' \in Argsort(probs)
    /\ selected' = SelectLoop(probs, sorted_idx', 1, <<>>)
    /\ caption' = build_caption(TagsOf(selected'))
    /\ tokens' = extract_tokens(caption')
    /\ merged' = MergeAll(TagsOf(selected'), tokens')
    /\ printed' = Truncate(merged')
    /\ bpc' = "done"
    /\ UNCHANGED <<n, probs>>

(***************************************************************************)
(* The merge loop on arbitrary tag and token lists                         *)
(***************************************************************************)
\* longest list of the exhaustive inputs
MaxShort == 2

\* longest list of the generated inputs
MaxLong == 26

MergePool == { <<>>, <<" ">>, <<"c", "a", "t">>, <<" ", "C", "a", "t", " ">>, <<"d", "o", "g">> }

ShortLists == UNION {[1..l -> MergePool] : l \in 0..MaxShort}

\* the k-th generated word: two letters, different for different k
Word(k, upper) ==
    LET cs == IF upper THEN UpperChars ELSE LowerChars
    IN <<cs[((k - 1) \div 5) + 1], LowerChars[((k - 1) % 5) + 1]>>

\* len words cycling with the given period; in mixed lists every other word is capitalised
LongList(len, period, mixed) ==
    [j \in 1..len |-> Word(((j - 1) % period) + 1, mixed /\ j % 2 = 0)]

MergeInputs ==
    { <<T, E>> : T \in ShortLists, E \in ShortLists }
        \cup { <<SubSeq(LongList(x[1], x[2], x[3]), 1, x[4]),
                 SubSeq(LongList(x[1], x[2], x[3]), x[4] + 1, x[1])>> :
                x \in { y \in (0..MaxLong) \X (1..MaxLong) \X BOOLEAN \X (0..MaxLong) :
                          y[4] <= y[1] } }

MergeInit ==
    /\ \E p \in MergeInputs : mT = p[1] /\ mE = p[2]
    /\ mpc = "start"
    /\ mOut = <<>>
    /\ mOut2 = <<>>

\* merge(T, E)
MergeStep ==
    /\ mpc = "start"
    /\ mOut' = Merge(mT, mE)
    /\ mpc' = "merged"
    /\ UNCHANGED <<mT, mE, mOut2>>

\* merge(merge(T, E), [])
RemergeStep ==
    /\ mpc = "merged"
    /\ mOut2' = Merge(mOut, <<>>)
    /\ mpc' = "remerged"
    /\ UNCHANGED <<mT, mE, mOut>>

(***************************************************************************)
(* Specifications                                                          *)
(***************************************************************************)
BatchIdle ==
    /\ n = 0
    /\ probs = <<>>
    /\ bpc = "idle"
    /\ sorted_idx = <<>>
    /\ selected = <<>>
    /\ caption = <<>>
    /\ tokens = <<>>
    /\ merged = <<>>
    /\ printed = <<>>

MergeIdle ==
    /\ mT = <<>>
    /\ mE = <<>>
    /\ mpc = "idle"
    /\ mOut = <<>>
    /\ mOut2 = <<>>

ServerIdle ==
    /\ stdin = <<>>
    /\ closed = TRUE
    /\ nread = 0
    /\ pc = "idle"
    /\ cur = [src |-> 0, req_id |-> None, query |-> <<>>]
    /\ out = <<>>
    /\ calls = <<>>
    /\ exitCode = {}

\* the server and its peer
Init == ServerInit /\ BatchIdle /\ MergeIdle

Next ==
    \/ \E line \in Lines : Send(line) /\ UNCHANGED <<batchVars, mergeVars>>
    \/ Close /\ UNCHANGED <<batchVars, mergeVars>>
    \/ ReadLine /\ UNCHANGED <<batchVars, mergeVars>>
    \/ EmbedReturns /\ UNCHANGED <<batchVars, mergeVars>>
    \/ EmbedRaises /\ UNCHANGED <<batchVars, mergeVars>>
    \/ Eof /\ UNCHANGED <<batchVars, mergeVars>>

Spec == Init /\ [][Next]_vars

\* The interpreter runs the loop whenever it can take a step: a line or the end
\* of input is there to read, or the pending embed_text call comes back.
FairSpec == Spec /\ WF_vars(ServerStep /\ UNCHANGED <<batchVars, mergeVars>>)

\* one run of caption.py
BatchInitAll == BatchInit /\ ServerIdle /\ MergeIdle

BatchNext == Main /\ UNCHANGED <<serverVars, mergeVars>>

SpecBatch == BatchInitAll /\ [][BatchNext]_vars

\* the merge loop applied to given lists, then to its own result
MergeInitAll == MergeInit /\ ServerIdle /\ BatchIdle

MergeNext ==
    \/ MergeStep /\ UNCHANGED <<serverVars, batchVars>>
    \/ RemergeStep /\ UNCHANGED <<serverVars, batchVars>>

SpecMerge == MergeInitAll /\ [][MergeNext]_vars

(***************************************************************************)
(* Properties of the server                                                *)
(***************************************************************************)
\* lines whose response has been written
Answered == IF pc = "encoding" THEN nread - 1 ELSE nread

\* a blank or whitespace-only line
IsBlankLine(line) == line.body = NoBody

\* a line that holds a JSON object
IsRecord(line) == line.body.k = "json" /\ line.body.val.t = "obj"

\* the id the request on this line carries: null when it has none
OwnId(line) == IF line.body.val.id = Absent THEN None ELSE line.body.val.id

\* the q field is missing, or a string of whitespace only
HasEmptyQuery(line) ==
    LET q == line.body.val.q IN
    \/ q = Absent
    \/ q.t = "str" /\ \A i \in DOMAIN q.s : q.s[i] \in Whitespace

\* the indices of the non-blank lines among the first k, in input order
RECURSIVE NonBlankUpTo(_)
NonBlankUpTo(k) ==
    IF k = 0 THEN <<>>
    ELSE IF IsBlankLine(stdin[k]) THEN NonBlankUpTo(k - 1)
    ELSE Append(NonBlankUpTo(k - 1), k)

\* the responses written for line j
ResponsesTo(j) == {i \in DOMAIN out : out[i].src = j}

\* line j reached the embed_text call
Embedded(j) == \E i \in DOMAIN calls : calls[i][1] = j

\* C1: when the text-encoding call fails for a line that parses as a record with
\* a non-empty trimmed query, the error response carries that request's own id.
C1_EncodingFailureKeepsId ==
    \A i \in DOMAIN out :
        /\ Embedded(out[i].src)
        /\ stdin[out[i].src].body.val.q.t = "str"
        /\ out[i].key = "error"
        => out[i].id = OwnId(stdin[out[i].src])

\* C2: the responses written so far answer exactly the non-blank lines read so
\* far, one each and in input order; blank lines get none; while a request is
\* being encoded no further line has been read.
C2_OneResponsePerLineInOrder ==
    /\ [i \in DOMAIN out |-> out[i].src] = NonBlankUpTo(Answered)
    /\ pc = "encoding" => cur.src = nread

\* a blank line was skipped between two answered lines, and the input is used up
C2_Witness ==
    /\ pc = "exited"
    /\ Len(out) = 2
    /\ nread = 3
    /\ IsBlankLine(stdin[2])
    /\ stdin[2].lead # <<>>

\* C3: a line that is not JSON gets a response with id null and an error; no
\* failing request ends the loop (it ends only at end of input, with every line
\* read), so each later valid line gets its own response: its vector under its
\* id, or the report of its own encoding failure.
C3_FailuresAreIsolated ==
    /\ \A i \in DOMAIN out :
        stdin[out[i].src].body = Garbage => out[i].id = None /\ out[i].key = "error"
    /\ pc = "exited" => closed /\ nread = Len(stdin)
    /\ \A j \in 1..Answered :
        LET line == stdin[j] IN
        /\ line.body = Garbage => ResponsesTo(j) # {}
        /\ IsRecord(line) /\ ~HasEmptyQuery(line) =>
            \E i \in ResponsesTo(j) :
                \/ /\ out[i].key = "vector"
                   /\ out[i].id = OwnId(line)
                   /\ out[i].val = [of |-> calls[CHOOSE c \in DOMAIN calls : calls[c][1] = j][2]]
                \/ /\ out[i].key = "error"
                   /\ out[i].val = [msg |-> "EncodingFailure"]

\* a vector was returned for a request that followed a line that is not JSON and
\* a request whose encoding failed
C3_Witness ==
    /\ Len(out) = 3
    /\ stdin[out[1].src].body = Garbage
    /\ out[2].val = [msg |-> "EncodingFailure"]
    /\ out[3].key = "vector"

\* C4: a line that parses as a record whose query is missing or empty after
\* trimming gets exactly the response {id: its own id, error: "empty query"},
\* and embed_text is not called for it.
C4_EmptyQueryRejected ==
    \A j \in 1..Answered :
        IsRecord(stdin[j]) /\ HasEmptyQuery(stdin[j]) =>
            /\ Cardinality(ResponsesTo(j)) = 1
            /\ \A i \in ResponsesTo(j) :
                /\ out[i].id = OwnId(stdin[j])
                /\ out[i].key = "error"
                /\ out[i].val = [msg |-> "empty query"]
            /\ ~Embedded(j)

\* both a whitespace-only query and a missing query were rejected
C4_Witness ==
    /\ \E j \in 1..Answered :
        /\ IsRecord(stdin[j])
        /\ stdin[j].body.val.q = JStr(<<" ", " ">>)
        /\ \E i \in ResponsesTo(j) : out[i].id = JNum(2)
    /\ \E j \in 1..Answered : IsRecord(stdin[j]) /\ stdin[j].body.val.q = Absent

\* C5: the loop leaves "awaiting line" only at end of input, with every line read
\* and exit status 0; and once the input is closed the process does exit with
\* status 0, provided every embed_text call comes back.
C5_ExitsOnlyAndSurelyAtEof ==
    /\ [](pc = "exited" => closed /\ nread = Len(stdin) /\ exitCode = {0})
    /\ [](pc # "exited" => exitCode = {})
    /\ (closed ~> (pc = "exited" /\ exitCode = {0}))

\* the process exited after answering a failed request
C5_Witness ==
    /\ pc = "exited"
    /\ exitCode = {0}
    /\ Len(stdin) = MaxLines
    /\ \E i \in DOMAIN out : out[i].key = "error"

(***************************************************************************)
(* Properties of the tagging pipeline                                      *)
(***************************************************************************)
\* C6: the selected list has between min(5, n) and 12 tags, and their scores
\* are in non-increasing order.
C6_SelectedLengthAndOrder ==
    bpc = "done" =>
        /\ Len(selected) >= Min(5, n)
        /\ Len(selected) <= 12
        /\ \A i \in 1..(Len(selected) - 1) : selected[i][2] >= selected[i + 1][2]

\* twelve tags were selected and the cap kept out a thirteenth label that scored
\* as high as the twelfth
C6_Witness ==
    /\ bpc = "done"
    /\ n > 12
    /\ Len(selected) = 12
    /\ probs[sorted_idx[13]] = selected[12][2]
    /\ selected[12][2] >= MIN_SCORE

\* C7: the caption is "photo" for no tags, "photo of x" for the single tag x,
\* and otherwise "photo of " the first tag " with " the second to fifth tags
\* joined by ", "; a sixth or later tag has no part in it; it is never empty.
C7_CaptionShape ==
    bpc = "done" =>
        LET t == TagsOf(selected)
            head == <<"p", "h", "o", "t", "o", " ", "o", "f", " ">> \o t[1] \o <<" ", "w", "i", "t", "h", " ">> \o t[2]
        IN /\ caption # <<>>
           /\ Len(t) = 0 => caption = <<"p", "h", "o", "t", "o">>
           /\ Len(t) = 1 => caption = <<"p", "h", "o", "t", "o", " ", "o", "f", " ">> \o t[1]
           /\ Len(t) = 2 => caption = head
           /\ Len(t) = 3 => caption = head \o <<",", " ">> \o t[3]
           /\ Len(t) = 4 => caption = head \o <<",", " ">> \o t[3] \o <<",", " ">> \o t[4]
           /\ Len(t) >= 5 =>
                caption = head \o <<",", " ">> \o t[3] \o <<",", " ">> \o t[4] \o <<",", " ">> \o t[5]

\* a caption built from a list with tags beyond the fifth, the second of them
\* made of two words
C7_Witness ==
    /\ bpc = "done"
    /\ Len(selected) > 5
    /\ selected[2][1] = <<"l", "i", "v", "i", "n", "g", " ", "r", "o", "o", "m">>

\* C9: labels with equal scores are considered in vocabulary order, so that
\* among equal scores the selected labels are in vocabulary order and precede,
\* in the vocabulary, every label left out: the selection is a function of the
\* scores alone.
C9_StableTieBreak ==
    bpc = "done" =>
        \A i \in DOMAIN selected, j \in DOMAIN sorted_idx :
            i < j /\ probs[sorted_idx[i]] = probs[sorted_idx[j]]
                => sorted_idx[i] < sorted_idx[j]

\* C10: the printed tags begin with the selected tags in selection order; the
\* selected tags and the caption's tokens are fewer than 24 distinct entries, so
\* the truncation removes nothing and each of them is printed.
C10_TruncationRemovesNothing ==
    bpc = "done" =>
        LET t == TagsOf(selected) IN
        /\ Len(printed) >= Len(t)
        /\ SubSeq(printed, 1, Len(t)) = t
        /\ Cardinality(Range(t) \cup Range(tokens)) < 24
        /\ printed = merged
        /\ Range(t) \cup Range(tokens) \subseteq Range(printed)

\* twelve tags led by the five that are not single words: nine tokens are added
C10_Witness ==
    /\ bpc = "done"
    /\ Len(selected) = 12
    /\ Len(tokens) = 9
    /\ Len(printed) = 21

(***************************************************************************)
(* Properties of the merge loop                                            *)
(***************************************************************************)
\* the entries of a list, each changed by Op
Mapped(Op(_), list) == SubSeq([k \in DOMAIN list |-> Op(list[k])], 1, Len(list))

\* where x first occurs in g
FirstAt(g, x) == CHOOSE k \in DOMAIN g : g[k] = x /\ \A l \in 1..(k - 1) : g[l] # x

\* m lists entries of g without repetition, in the order of their first
\* occurrence in g, and leaves out no entry but the empty one, unless it is cut
\* at limit entries
FirstOccurrences(m, g, limit) ==
    /\ \A i \in DOMAIN m : m[i] \in Range(g)
    /\ \E at \in {Mapped(LAMBDA x : FirstAt(g, x), m)} :
        /\ \A i \in 1..(Len(m) - 1) : at[i] < at[i + 1]
        /\ \A k \in DOMAIN g :
            \/ g[k] = <<>>
            \/ g[k] \in Range(m)
            \/ Len(m) = limit /\ at[limit] < k

\* C8: merge(T, E) has no two entries equal ignoring case, no empty entry and at
\* most 24 entries; its entries are the stripped, lower-cased entries of T
\* followed by E in the order of their first occurrence, none left out before
\* the 24th; and merge(merge(T, E), []) = merge(T, E).
C8_MergeProperties ==
    mpc \in {"merged", "remerged"} =>
        /\ \E low \in {Mapped(Lower, mOut)} :
            \A i, j \in DOMAIN low : i < j => low[i] # low[j]
        /\ \A i \in DOMAIN mOut : mOut[i] # <<>>
        /\ Len(mOut) <= 24
        /\ FirstOccurrences(mOut, Mapped(Normalise, mT \o mE), 24)
        /\ mpc = "remerged" => mOut2 = mOut

\* a list with two spellings of one word and more than 24 different words was
\* merged, cut to 24, and merged again
C8_Witness ==
    /\ mpc = "remerged"
    /\ Len(mOut) = 24
    /\ mT # <<>> /\ mE # <<>>
    /\ \E k \in DOMAIN mE : Normalise(mE[k]) \notin Range(mOut)
    /\ \E k \in DOMAIN mT, l \in DOMAIN mE : mT[k] # mE[l] /\ Lower(mT[k]) = Lower(mE[l])

====
